---- MODULE Spec2Model ----
(***************************************************************************)
(* The multi-search route of meilisearch                                   *)
(* (meilisearch/src/routes/multi_search.rs): the handler                   *)
(* multi_search_with_post, one request at a time, and the k-way merge      *)
(* merge_by_normalized_score.                                              *)
(*                                                                         *)
(* Encoding of Rust values:                                                *)
(*   Option<T>   None is <<>>, Some(x) is <<x>>                            *)
(*   Vec<T>      a sequence                                                *)
(*   a panic     the request ends with response.kind = "panic"             *)
(* The backquotes of the message prefix "Inside `.queries[i]`: " are       *)
(* written as apostrophes, a TLA+ string cannot hold a backquote.          *)
(***************************************************************************)
EXTENDS Integers, Sequences, FiniteSets, TLC

(***************************************************************************)
(* Bounds of the model.                                                    *)
(***************************************************************************)
\* longest batch of queries of a request
MaxQueries == 2
\* most per-query results handed to merge_by_normalized_score directly
MaxResults == 2
\* longest hit list of one per-query result
MaxLen == 2
\* largest max_hits handed to merge_by_normalized_score directly
MaxHitsArg == 3

(***************************************************************************)
(* Option<T>                                                               *)
(***************************************************************************)
None == <<>>

Some(x) == <<x>>

IsSome(o) == o # None

\* Option::unwrap on a Some; callers guard the None case, which panics
Unwrap(o) == o[1]

UnwrapOr(o, d) == IF IsSome(o) THEN o[1] ELSE d

(***************************************************************************)
(* The inputs of a request.                                                *)
(***************************************************************************)
IndexUids == {"a", "b"}

\* limit, and hits_per_page: not set, less than the limit, more than the limit
Limits == {2}

HitsPerPages == {None, Some(1), Some(3)}

\* SearchQueryWithIndex: only the fields the route reads
SearchQueryWithIndex ==
    [index_uid : IndexUids, limit : Limits, hits_per_page : HitsPerPages,
     filter : {<<"own">>}]

MergeStrategy == {"None", "ByNormalizedScore", "ByScoreDetails"}

SeqsUpTo(S, n) == UNION {[1..k -> S] : k \in 0..n}

SearchQueries == SeqsUpTo(SearchQueryWithIndex, MaxQueries)

(***************************************************************************)
(* Hits and per-query results.                                             *)
(***************************************************************************)
\* the ranking scores of the hits: none, a low one, a high one
Scores == {None, Some(1), Some(2)}

\* SearchHit: the document (its rank in its own result list) and the score
HitsOf(scores) == [k \in 1..Len(scores) |-> [doc |-> k, ranking_score |-> scores[k]]]

HitLists == {HitsOf(s) : s \in SeqsUpTo(Scores, MaxLen)}

\* what perform_search answers to the handler: two sample hit lists, one with
\* ranking scores and one without (MergeSpec merges every list of HitLists)
SearchAnswers == {HitsOf(<<Some(2), Some(1)>>), HitsOf(<<None>>)}

VARIABLES
    queries,         \* params.queries, as submitted
    merge_strategy,  \* params.merge_strategy
    authorized,      \* index_scheduler.filters(): the authorized indexes
    search_rules,    \* index_scheduler.filters(): the indexes with search rules
    pc,              \* position of the handler
    query_index,     \* the loop variable of the dispatch loop
    query,           \* the (rewritten) query of the current position
    max_hits,        \* Option: None before it is computed
    search_results,  \* the Vec the dispatch loop pushes to
    dispatch_err,    \* Option<(ResponseError, usize)> of the dispatch loop
    in_flight,       \* positions whose perform_search is spawned, not awaited
    calls,           \* the calls made to the collaborators, in order
    analytics,       \* what post_multi_search received
    iterators,       \* merge_by_normalized_score: the live cursors
    hits,            \* merge_by_normalized_score: the merged hits so far
    round,           \* merge_by_normalized_score: iterations done
    picks,           \* merge_by_normalized_score: the src of the cursor of each round
    response         \* what the handler returned

vars ==
    <<queries, merge_strategy, authorized, search_rules, pc, query_index, query,
      max_hits, search_results, dispatch_err, in_flight, calls, analytics,
      iterators, hits, round, picks, response>>

inputVars == <<queries, merge_strategy, authorized, search_rules>>

mergeVars == <<iterators, hits, round, picks>>

NoQuery == [limit |-> 0, hits_per_page |-> None, filter |-> <<>>]

NoResponse == [kind |-> "none"]

(***************************************************************************)
(* Errors.  A ResponseError has a status code and a message; the           *)
(* conversions into it live in other crates and keep the error's own code. *)
(***************************************************************************)
\* AuthenticationError::InvalidToken as a ResponseError
InvalidToken ==
    [error |-> "invalid_token", code |-> "FORBIDDEN",
     message |-> <<"The provided API key is invalid.">>]

\* the error of index_scheduler.index(uid) as a ResponseError
IndexNotFound(index_uid) ==
    [error |-> "index_not_found", code |-> "NOT_FOUND",
     message |-> <<"Index not found: ", index_uid>>]

\* the JoinError of the spawn_blocking task as a ResponseError
JoinError ==
    [error |-> "join_error", code |-> "INTERNAL_SERVER_ERROR",
     message |-> <<"task failed to execute to completion">>]

\* the error of perform_search as a ResponseError
SearchError ==
    [error |-> "search_error", code |-> "INTERNAL_SERVER_ERROR",
     message |-> <<"search failed">>]

\* a map_err closure that leaves the status code as it is
PatchCodeForgotten(err) == err

\* err.code = StatusCode::BAD_REQUEST
PatchCode(err) == [err EXCEPT !.code = "BAD_REQUEST"]

\* a with_index that loses the position: every error is paired with position 0
WithIndexZero(err, index) == Some(<<err, 0>>)

\* with_index: the error paired with the position
WithIndex(err, index) == Some(<<err, index>>)

\* a message left as it is
FormatMessageBare(index, message) == message

\* format!("Inside `.queries[{query_index}]`: {}", err.message)
FormatMessage(index, message) ==
    <<"Inside '.queries[", ToString(index), "]': ">> \o message

\* the closure of map_err: the message rewritten, the rest of the error kept
MapErrMessage(pair) ==
    [pair[1] EXCEPT !.message = FormatMessage(pair[2], pair[1].message)]

UnwrapNonePanic == [kind |-> "panic", message |-> "called Option::unwrap() on a None value"]

TodoPanic == [kind |-> "panic", message |-> "not yet implemented"]

(***************************************************************************)
(* The dispatch loop.                                                      *)
(***************************************************************************)
\* a derivation that reads the limit alone
HitsWantedLimitOnly(q) == q.limit

\* hits_per_page.unwrap_or(*limit)
HitsWanted(q) == UnwrapOr(q.hits_per_page, q.limit)

\* queries.iter().map(..).max(): None on an empty batch
MaxHits(qs) ==
    IF qs = <<>> THEN None
    ELSE Some(CHOOSE m \in {HitsWanted(qs[k]) : k \in 1..Len(qs)} :
                \A k \in 1..Len(qs) : HitsWanted(qs[k]) <= m)

\* SearchQueryWithIndex::into_index_query
IntoIndexQuery(q) ==
    <<q.index_uid,
      [limit |-> q.limit, hits_per_page |-> q.hits_per_page, filter |-> q.filter]>>

\* the index uid of the position query_index (0-based)
IndexUidAt(i) == IntoIndexQuery(queries[i + 1])[1]

\* the search rules the tenant token holds for an index
SearchRulesOf(index_uid) == <<"tenant", index_uid>>

\* add_search_rules: the rules' filter is added to the query's own filter
AddSearchRules(q, rules) == [q EXCEPT !.filter = Append(@, rules)]

\* one call to a collaborator, as the collaborator sees it: the position it is
\* made for, its arguments, how it ended and, for a search, the hits it answered
Call(op, outcome, answer) ==
    [op |-> op, query_index |-> query_index, index_uid |-> IndexUidAt(query_index),
     query |-> query, outcome |-> outcome, answer |-> answer]

\* an authorization check that lets every index through
IsIndexAuthorizedAlways(index_uid) == TRUE

\* index_scheduler.filters().is_index_authorized(&index_uid)
IsIndexAuthorized(index_uid) == index_uid \in authorized

\* SearchResultWithIndex { index_uid, result }
SearchResultWithIndex(index_uid, result) == [index_uid |-> index_uid, result |-> result]

\* search_results.push(..)
PushResult(results, index_uid, result) ==
    Append(results, SearchResultWithIndex(index_uid, result))

\* the dispatch loop ends with an error: return Err((err, query_index))
Fail(err) ==
    /\ dispatch_err' = WithIndex(err, query_index)
    /\ pc' = "analytics"

\* the end of one iteration of the for loop: the next position, or Ok(search_results)
NextQuery ==
    IF query_index + 1 < Len(queries)
    THEN /\ query_index' = query_index + 1
         /\ query' = IntoIndexQuery(queries[query_index + 2])[2]
         /\ pc' = "authorize"
    ELSE /\ pc' = "analytics"
         /\ UNCHANGED <<query_index, query>>

\* let max_hits = ...unwrap(); MultiSearchAggregator::from_queries; the loop is entered
Start ==
    /\ pc = "start"
    /\ IF MaxHits(queries) = None
       THEN /\ response' = UnwrapNonePanic
            /\ pc' = "done"
            /\ UNCHANGED <<max_hits, query_index, query>>
       ELSE /\ max_hits' = MaxHits(queries)
            /\ query_index' = 0
            /\ query' = IntoIndexQuery(queries[1])[2]
            /\ pc' = "authorize"
            /\ UNCHANGED response
    /\ UNCHANGED <<inputVars, search_results, dispatch_err, in_flight, calls,
                   analytics, mergeVars>>

\* if !index_scheduler.filters().is_index_authorized(&index_uid) { return Err(..) }
Authorize ==
    /\ pc = "authorize"
    /\ IF IsIndexAuthorized(IndexUidAt(query_index))
       THEN /\ calls' = Append(calls, Call("is_index_authorized", "ok", <<>>))
            /\ pc' = "search_rules"
            /\ UNCHANGED dispatch_err
       ELSE /\ calls' = Append(calls, Call("is_index_authorized", "denied", <<>>))
            /\ Fail(InvalidToken)
    /\ UNCHANGED <<inputVars, query_index, query, max_hits, search_results,
                   in_flight, analytics, mergeVars, response>>

\* a loop that asks for the search rules and leaves the query as submitted
ApplySearchRulesDropped ==
    /\ pc = "search_rules"
    /\ calls' = Append(calls, Call("get_index_search_rules", "ok", <<>>))
    /\ pc' = "index"
    /\ UNCHANGED <<inputVars, query_index, query, max_hits, search_results,
                   dispatch_err, in_flight, analytics, mergeVars, response>>

\* if let Some(search_rules) = ..get_index_search_rules(..) { add_search_rules(..) }
ApplySearchRules ==
    /\ pc = "search_rules"
    /\ calls' = Append(calls, Call("get_index_search_rules", "ok", <<>>))
    /\ query' = IF IndexUidAt(query_index) \in search_rules
                THEN AddSearchRules(query, SearchRulesOf(IndexUidAt(query_index)))
                ELSE query
    /\ pc' = "index"
    /\ UNCHANGED <<inputVars, query_index, max_hits, search_results, dispatch_err,
                   in_flight, analytics, mergeVars, response>>

\* index_scheduler.index(&index_uid).map_err(..).with_index(query_index)?
ResolveIndex ==
    /\ pc = "index"
    /\ \E found \in BOOLEAN :
         IF found
         THEN /\ calls' = Append(calls, Call("index", "ok", <<>>))
              /\ pc' = "spawn"
              /\ UNCHANGED dispatch_err
         ELSE /\ calls' = Append(calls, Call("index", "not_found", <<>>))
              /\ Fail(PatchCode(IndexNotFound(IndexUidAt(query_index))))
    /\ UNCHANGED <<inputVars, query_index, query, max_hits, search_results,
                   in_flight, analytics, mergeVars, response>>

\* a spawn that is not awaited: the loop goes on to the next position
SpawnSearchNotAwaited ==
    /\ pc = "spawn"
    /\ calls' = Append(calls, Call("spawn_blocking", "ok", <<>>))
    /\ in_flight' = in_flight \cup {query_index}
    /\ NextQuery
    /\ UNCHANGED <<inputVars, max_hits, search_results, dispatch_err, analytics,
                   mergeVars, response>>

\* tokio::task::spawn_blocking(move || perform_search(&index, query))
SpawnSearch ==
    /\ pc = "spawn"
    /\ calls' = Append(calls, Call("spawn_blocking", "ok", <<>>))
    /\ in_flight' = in_flight \cup {query_index}
    /\ pc' = "await"
    /\ UNCHANGED <<inputVars, query_index, query, max_hits, search_results,
                   dispatch_err, analytics, mergeVars, response>>

\* .await.with_index(query_index)?; search_result.with_index(query_index)?; push
AwaitSearch ==
    /\ pc = "await"
    /\ in_flight' = in_flight \ {query_index}
    /\ \/ /\ calls' = Append(calls, Call("perform_search", "join_error", <<>>))
          /\ Fail(JoinError)
          /\ UNCHANGED <<query_index, query, search_results>>
       \/ /\ calls' = Append(calls, Call("perform_search", "search_error", <<>>))
          /\ Fail(SearchError)
          /\ UNCHANGED <<query_index, query, search_results>>
       \/ \E answer \in SearchAnswers :
            /\ calls' = Append(calls, Call("perform_search", "ok", answer))
            /\ search_results' =
                 PushResult(search_results, IndexUidAt(query_index), [hits |-> answer])
            /\ NextQuery
            /\ UNCHANGED dispatch_err
    /\ UNCHANGED <<inputVars, max_hits, analytics, mergeVars, response>>

\* if search_results.is_ok() { succeed() }; analytics.post_multi_search(..)
PostAnalytics ==
    /\ pc = "analytics"
    /\ analytics' = Append(analytics, [succeeded |-> dispatch_err = None])
    /\ pc' = "map_err"
    /\ UNCHANGED <<inputVars, query_index, query, max_hits, search_results,
                   dispatch_err, in_flight, calls, mergeVars, response>>

\* a handler that goes on to the merge whatever the dispatch loop returned
MapErrIgnored ==
    /\ pc = "map_err"
    /\ pc' = "match_strategy"
    /\ UNCHANGED <<inputVars, query_index, query, max_hits, search_results,
                   dispatch_err, in_flight, calls, analytics, mergeVars, response>>

\* search_results.map_err(..)?
MapErr ==
    /\ pc = "map_err"
    /\ IF IsSome(dispatch_err)
       THEN /\ response' = [kind |-> "error", error |-> MapErrMessage(Unwrap(dispatch_err))]
            /\ pc' = "done"
       ELSE /\ pc' = "match_strategy"
            /\ UNCHANGED response
    /\ UNCHANGED <<inputVars, query_index, query, max_hits, search_results,
                   dispatch_err, in_flight, calls, analytics, mergeVars>>

\* a serialization without skip_serializing_if: aggregate_hits is always written
OkResponseNoSkip(aggregate_hits, results) ==
    [kind |-> "ok", aggregate_hits |-> aggregate_hits, results |-> results]

\* HttpResponse::Ok().json(SearchResults { aggregate_hits, results }): the field
\* aggregate_hits is skipped when it is None (skip_serializing_if)
OkResponse(aggregate_hits, results) ==
    IF aggregate_hits = None
    THEN [kind |-> "ok", results |-> results]
    ELSE [kind |-> "ok", aggregate_hits |-> Unwrap(aggregate_hits), results |-> results]

\* a match whose ByScoreDetails arm falls back to the unmerged results
MatchStrategyFallback ==
    /\ pc = "match_strategy"
    /\ CASE merge_strategy \in {"None", "ByScoreDetails"} ->
              /\ response' = OkResponse(None, search_results)
              /\ pc' = "done"
         [] merge_strategy = "ByNormalizedScore" ->
              /\ pc' = "merge"
              /\ UNCHANGED response
    /\ UNCHANGED <<inputVars, query_index, query, max_hits, search_results,
                   dispatch_err, in_flight, calls, analytics, mergeVars>>

\* match merge_strategy { None => .., ByScoreDetails => todo!(), ByNormalizedScore => .. }
MatchStrategy ==
    /\ pc = "match_strategy"
    /\ CASE merge_strategy = "None" ->
              /\ response' = OkResponse(None, search_results)
              /\ pc' = "done"
         [] merge_strategy = "ByScoreDetails" ->
              /\ response' = TodoPanic
              /\ pc' = "done"
         [] merge_strategy = "ByNormalizedScore" ->
              /\ pc' = "merge"
              /\ UNCHANGED response
    /\ UNCHANGED <<inputVars, query_index, query, max_hits, search_results,
                   dispatch_err, in_flight, calls, analytics, mergeVars>>

(***************************************************************************)
(* merge_by_normalized_score.  A cursor is (index_uid, it, next): the      *)
(* index uid of its result, the hits not yet peeked, the peeked hit.  The  *)
(* iterator it borrows the hits of one result: src is the place of that    *)
(* result in search_results, which is what tells two iterators apart.      *)
(***************************************************************************)
\* the filter_map closure on the s-th result: no cursor for a result without hits
Cursor(sr, s) ==
    IF sr.result.hits = <<>> THEN None
    ELSE Some([index_uid |-> sr.index_uid, src |-> s, it |-> Tail(sr.result.hits),
               next |-> Head(sr.result.hits)])

\* the cursors of the results from the s-th on, in the order of the results
RECURSIVE CursorsFrom(_, _)
CursorsFrom(results, s) ==
    IF s > Len(results) THEN <<>>
    ELSE Cursor(results[s], s) \o CursorsFrom(results, s + 1)

\* search_results.iter().filter_map(..).collect()
Cursors(results) == CursorsFrom(results, 1)

\* the sort key: peeked.ranking_score.unwrap()
SortKey(cursor) == Unwrap(cursor.next.ranking_score)

\* the sort calls the key of every element once it has two or more to compare;
\* with fewer it compares nothing and no key is computed
SortPanics(cursors) ==
    /\ Len(cursors) >= 2
    /\ \E k \in 1..Len(cursors) : cursors[k].next.ranking_score = None

\* an insertion that sorts the wrong way round: after every element whose key
\* is not less
InsertByKeyDescending(sorted, cursor) ==
    LET n == Cardinality({k \in 1..Len(sorted) : SortKey(sorted[k]) >= SortKey(cursor)})
    IN  SubSeq(sorted, 1, n) \o <<cursor>> \o SubSeq(sorted, n + 1, Len(sorted))

\* one insertion of a stable sort: after every element whose key is not greater
InsertByKey(sorted, cursor) ==
    LET n == Cardinality({k \in 1..Len(sorted) : SortKey(sorted[k]) <= SortKey(cursor)})
    IN  SubSeq(sorted, 1, n) \o <<cursor>> \o SubSeq(sorted, n + 1, Len(sorted))

\* a round that does not sort: the cursors stay as they are
SortByKeySkipped(cursors) == cursors

\* iterators.sort_by_key(..): stable, ascending
RECURSIVE SortByKey(_)
SortByKey(cursors) ==
    IF Len(cursors) < 2 THEN cursors
    ELSE InsertByKey(SortByKey(SubSeq(cursors, 1, Len(cursors) - 1)),
                     cursors[Len(cursors)])

\* a selection at the wrong end: iterators.first_mut()
SelectedFirst(sorted) == sorted[1]

\* iterators.last_mut(): the cursor the round emits from
Selected(sorted) == sorted[Len(sorted)]

\* SearchHitWithIndex { index_uid: index_uid.clone(), hit: next.clone() }
SearchHitWithIndex(cursor) == [index_uid |-> cursor.index_uid, hit |-> cursor.next]

\* an advance that consumes the iterator and forgets to store the hit in next
AdvanceKeepsNext(sorted) ==
    LET cursor == sorted[Len(sorted)]
    IN  IF cursor.it # <<>>
        THEN [sorted EXCEPT ![Len(sorted)] = [cursor EXCEPT !.it = Tail(cursor.it)]]
        ELSE SubSeq(sorted, 1, Len(sorted) - 1)

\* if let Some(next_hit) = it.next() { *next = next_hit } else { iterators.pop() }
Advance(sorted) ==
    LET cursor == Selected(sorted)
    IN  IF cursor.it # <<>>
        THEN [sorted EXCEPT ![Len(sorted)] =
                 [cursor EXCEPT !.next = Head(cursor.it), !.it = Tail(cursor.it)]]
        ELSE SubSeq(sorted, 1, Len(sorted) - 1)

\* a loop over 0..=max_hits
InRangeInclusive(n, max) == n <= max

\* for _ in 0..max_hits: the loop has an iteration left
InRange(n, max) == n < max

\* the call: the cursors are collected and hits is allocated
MergeBegin ==
    /\ pc = "merge"
    /\ iterators' = Cursors(search_results)
    /\ hits' = <<>>
    /\ round' = 0
    /\ picks' = <<>>
    /\ pc' = "merge_loop"
    /\ UNCHANGED <<inputVars, query_index, query, max_hits, search_results,
                   dispatch_err, in_flight, calls, analytics, response>>

\* one iteration of for _ in 0..max_hits, or the end of the loop
MergeRound ==
    /\ pc = "merge_loop"
    /\ IF ~InRange(round, Unwrap(max_hits))
       THEN /\ pc' = "merged"
            /\ UNCHANGED <<mergeVars, response>>
       ELSE IF SortPanics(iterators)
       THEN /\ response' = UnwrapNonePanic
            /\ pc' = "done"
            /\ UNCHANGED mergeVars
       ELSE LET sorted == SortByKey(iterators)
            IN  IF sorted = <<>>
                THEN /\ pc' = "merged"
                     /\ UNCHANGED <<mergeVars, response>>
                ELSE /\ hits' = Append(hits, SearchHitWithIndex(Selected(sorted)))
                     /\ iterators' = Advance(sorted)
                     /\ round' = round + 1
                     /\ picks' = Append(picks, Selected(sorted).src)
                     /\ pc' = "merge_loop"
                     /\ UNCHANGED response
    /\ UNCHANGED <<inputVars, query_index, query, max_hits, search_results,
                   dispatch_err, in_flight, calls, analytics>>

\* Ok(HttpResponse::Ok().json(SearchResults { aggregate_hits: Some(..), results }))
Respond ==
    /\ pc = "merged"
    /\ response' = OkResponse(Some(hits), search_results)
    /\ pc' = "done"
    /\ UNCHANGED <<inputVars, query_index, query, max_hits, search_results,
                   dispatch_err, in_flight, calls, analytics, mergeVars>>

(***************************************************************************)
(* Spec: one request through multi_search_with_post.                       *)
(***************************************************************************)
Init ==
    /\ queries \in SearchQueries
    /\ merge_strategy \in MergeStrategy
    /\ authorized \in SUBSET IndexUids
    /\ search_rules \in SUBSET authorized
    /\ pc = "start"
    /\ query_index = 0
    /\ query = NoQuery
    /\ max_hits = None
    /\ search_results = <<>>
    /\ dispatch_err = None
    /\ in_flight = {}
    /\ calls = <<>>
    /\ analytics = <<>>
    /\ iterators = <<>>
    /\ hits = <<>>
    /\ round = 0
    /\ picks = <<>>
    /\ response = NoResponse

Next ==
    \/ Start
    \/ Authorize
    \/ ApplySearchRules
    \/ ResolveIndex
    \/ SpawnSearch
    \/ AwaitSearch
    \/ PostAnalytics
    \/ MapErr
    \/ MatchStrategy
    \/ MergeBegin
    \/ MergeRound
    \/ Respond

Spec == Init /\ [][Next]_vars

(***************************************************************************)
(* MergeSpec: merge_by_normalized_score called on every list of per-query  *)
(* results and every max_hits within the bounds.                           *)
(***************************************************************************)
\* the index uid of the k-th result: "a", "b", "a", ..
UidOfResult(k) == IF k % 2 = 1 THEN "a" ELSE "b"

SearchResultLists ==
    {[k \in 1..Len(lists) |->
        SearchResultWithIndex(UidOfResult(k), [hits |-> lists[k]])] :
     lists \in SeqsUpTo(HitLists, MaxResults)}

\* A:[0.9, 0.5] and B:[0.8, 0.7], the scores in tenths
ExampleResults ==
    <<SearchResultWithIndex("a", [hits |-> HitsOf(<<Some(9), Some(5)>>)]),
      SearchResultWithIndex("b", [hits |-> HitsOf(<<Some(8), Some(7)>>)])>>

MergeInit ==
    /\ search_results \in SearchResultLists \cup {ExampleResults}
    /\ max_hits \in {Some(m) : m \in 0..MaxHitsArg}
    /\ pc = "merge"
    /\ queries = <<>>
    /\ merge_strategy = "ByNormalizedScore"
    /\ authorized = {}
    /\ search_rules = {}
    /\ query_index = 0
    /\ query = NoQuery
    /\ dispatch_err = None
    /\ in_flight = {}
    /\ calls = <<>>
    /\ analytics = <<>>
    /\ iterators = <<>>
    /\ hits = <<>>
    /\ round = 0
    /\ picks = <<>>
    /\ response = NoResponse

MergeNext ==
    \/ MergeBegin
    \/ MergeRound

MergeSpec == MergeInit /\ [][MergeNext]_vars

(***************************************************************************)
(* What the claims read.                                                   *)
(***************************************************************************)
\* the calls that did not end well, by their place in calls
FailedCalls == {k \in DOMAIN calls : calls[k].outcome # "ok"}

\* the message names the position i
Tagged(message, i) ==
    /\ Len(message) > 3
    /\ SubSeq(message, 1, 3) = <<"Inside '.queries[", ToString(i), "]': ">>

\* the calls that resolve or execute
WorkOps == {"index", "spawn_blocking", "perform_search"}

\* the hits perform_search answered for the position i
AnswerAt(i) ==
    LET k == CHOOSE k \in DOMAIN calls :
                 calls[k].op = "perform_search" /\ calls[k].query_index = i
    IN  calls[k].answer

(***************************************************************************)
(* C1: when the query at position i is the first to fail (authorization    *)
(* denied, index not found, blocking task failed, search failed), the      *)
(* failing call is the last call made, no call is made for a position      *)
(* after i, and the request ends with one error whose message names        *)
(* position i and with no per-query result.                                *)
(***************************************************************************)
C1_FirstFailureAbortsBatch ==
    \A k \in FailedCalls :
        LET i == calls[k].query_index
        IN  /\ k = Len(calls)
            /\ \A j \in DOMAIN calls : calls[j].query_index <= i
            /\ response.kind # "ok"
            /\ pc = "done" =>
                 /\ DOMAIN response = {"kind", "error"}
                 /\ response.kind = "error"
                 /\ Tagged(response.error.message, i)

\* the second of two queries fails after the first gave a result
C1_Witness ==
    /\ pc = "done"
    /\ Len(queries) = 2
    /\ Len(search_results) = 1
    /\ \E k \in FailedCalls : calls[k].query_index = 1
    /\ response.kind = "error"

(***************************************************************************)
(* C2: when every query succeeds and the merge strategy is None, the       *)
(* response holds one result per query, in input order: entry k has the    *)
(* index uid of query k and the hits its execution answered.               *)
(***************************************************************************)
C2_ResultsInInputOrder ==
    (pc = "done" /\ merge_strategy = "None" /\ FailedCalls = {}) =>
        /\ response.kind = "ok"
        /\ Len(response.results) = Len(queries)
        /\ \A k \in 1..Len(queries) :
             /\ response.results[k].index_uid = queries[k].index_uid
             /\ response.results[k].result.hits = AnswerAt(k - 1)

\* the same, of the batches that hold a query
C2_ResultsInInputOrderNonEmpty ==
    queries # <<>> => C2_ResultsInInputOrder

\* two queries of different indexes answered different hits
C2_Witness ==
    /\ pc = "done"
    /\ merge_strategy = "None"
    /\ response.kind = "ok"
    /\ Len(queries) = 2
    /\ queries[1].index_uid # queries[2].index_uid
    /\ AnswerAt(0) # AnswerAt(1)

(***************************************************************************)
(* C3: the index of a position is resolved and its query executed only     *)
(* after the authorization check of that position has passed; for an       *)
(* index that is not authorized no resolution and no execution is ever     *)
(* attempted, and the request ends with the invalid-token error naming     *)
(* that position.                                                          *)
(***************************************************************************)
C3_AuthorizationBeforeWork ==
    /\ \A k \in DOMAIN calls :
         calls[k].op \in WorkOps =>
           /\ calls[k].index_uid \in authorized
           /\ \E j \in 1..(k - 1) :
                /\ calls[j].op = "is_index_authorized"
                /\ calls[j].query_index = calls[k].query_index
                /\ calls[j].outcome = "ok"
    /\ \A k \in DOMAIN calls :
         (calls[k].index_uid \notin authorized /\ pc = "done") =>
           /\ response.kind = "error"
           /\ response.error.error = "invalid_token"
           /\ Tagged(response.error.message, calls[k].query_index)

\* the index of the second query is denied after the first query was executed
C3_Witness ==
    /\ pc = "done"
    /\ \E k \in DOMAIN calls :
         /\ calls[k].op = "is_index_authorized"
         /\ calls[k].outcome = "denied"
         /\ calls[k].query_index = 1
    /\ \E k \in DOMAIN calls : calls[k].op = "perform_search"

(***************************************************************************)
(* What the claims about the merge read.                                   *)
(***************************************************************************)
Min(a, b) == IF a <= b THEN a ELSE b

RECURSIVE TotalHits(_)
TotalHits(results) ==
    IF results = <<>> THEN 0
    ELSE Len(Head(results).result.hits) + TotalHits(Tail(results))

\* every hit of the list has a score
AllScored(hs) == \A k \in DOMAIN hs : IsSome(hs[k].ranking_score)

\* the scores of the list never increase
NonIncreasing(hs) ==
    \A k \in 1..(Len(hs) - 1) :
        Unwrap(hs[k].ranking_score) >= Unwrap(hs[k + 1].ranking_score)

\* the hits of a merged list, without their index uids
HitsOnly(merged) == [k \in DOMAIN merged |-> merged[k].hit]

\* out interleaves, for each result s, its first taken[s] hits in their order,
\* each with the index uid of s
RECURSIVE Interleaves(_, _)
Interleaves(out, taken) ==
    IF out = <<>> THEN \A s \in DOMAIN taken : taken[s] = 0
    ELSE \E s \in DOMAIN taken :
           /\ taken[s] > 0
           /\ taken[s] <= Len(search_results[s].result.hits)
           /\ out[Len(out)] =
                [index_uid |-> search_results[s].index_uid,
                 hit |-> search_results[s].result.hits[taken[s]]]
           /\ Interleaves(SubSeq(out, 1, Len(out) - 1),
                          [taken EXCEPT ![s] = @ - 1])

(***************************************************************************)
(* C4: the list merge_by_normalized_score returns holds                    *)
(* min(max_hits, total number of hits of the per-query results) hits.      *)
(***************************************************************************)
C4_MergedLength ==
    pc = "merged" => Len(hits) = Min(Unwrap(max_hits), TotalHits(search_results))

\* two results with three hits in all, merged under max_hits = 2
C4_Witness ==
    /\ pc = "merged"
    /\ Len(search_results) = 2
    /\ TotalHits(search_results) = 3
    /\ Unwrap(max_hits) = 2
    /\ Len(hits) = 2

(***************************************************************************)
(* C5: when every hit has a score and the hits of each per-query result    *)
(* are in non-increasing score order, the merged hits are in               *)
(* non-increasing score order, at every round and in the returned list.    *)
(***************************************************************************)
C5_MergedNonIncreasing ==
    (\A s \in DOMAIN search_results :
        /\ AllScored(search_results[s].result.hits)
        /\ NonIncreasing(search_results[s].result.hits))
    => /\ AllScored(HitsOnly(hits))
       /\ NonIncreasing(HitsOnly(hits))

\* a:[2, 1] and b:[2, 1] merged whole: the output goes from one result to the
\* other and back
C5_Witness ==
    /\ pc = "merged"
    /\ Len(search_results) = 2
    /\ \A s \in DOMAIN search_results :
         /\ Len(search_results[s].result.hits) = 2
         /\ AllScored(search_results[s].result.hits)
         /\ NonIncreasing(search_results[s].result.hits)
    /\ Len(hits) = 3
    /\ hits[1].index_uid # hits[2].index_uid
    /\ hits[1].hit.ranking_score # hits[3].hit.ranking_score

(***************************************************************************)
(* C6: at every round and in the returned list, the merged hits are an     *)
(* interleaving of prefixes: for each per-query result, the hits emitted   *)
(* from it, each carrying its index uid, are its first hits in their       *)
(* original order.                                                         *)
(***************************************************************************)
C6_InterleavingOfPrefixes ==
    \E taken \in [DOMAIN search_results -> 0..MaxLen] : Interleaves(hits, taken)

\* both results are consumed in part or whole: three of four hits are merged
C6_Witness ==
    /\ pc = "merged"
    /\ Len(search_results) = 2
    /\ TotalHits(search_results) = 4
    /\ Len(hits) = 3
    /\ \E j, k \in DOMAIN hits : hits[j].index_uid # hits[k].index_uid

(***************************************************************************)
(* What the claims about the outcome of the request read.                  *)
(***************************************************************************)
\* the handler is in merge_by_normalized_score or past it
InMerger == pc \in {"merge", "merge_loop", "merged"}

\* the message of the error a failed call gives, before the handler rewrites it
OriginalMessage(call) ==
    CASE call.outcome = "denied" -> <<"The provided API key is invalid.">>
      [] call.outcome = "not_found" -> <<"Index not found: ", call.index_uid>>
      [] call.outcome = "join_error" -> <<"task failed to execute to completion">>
      [] call.outcome = "search_error" -> <<"search failed">>

\* some hit of some per-query result has no ranking score
SomeHitUnscored ==
    \E s \in DOMAIN search_results : ~AllScored(search_results[s].result.hits)

(***************************************************************************)
(* C7, as stated, of the batches that hold a query: with ByScoreDetails    *)
(* the request always ends in the not-implemented failure.                 *)
(***************************************************************************)
C7_AlwaysNotImplemented ==
    (merge_strategy = "ByScoreDetails" /\ queries # <<>> /\ pc = "done")
    => response = TodoPanic

(***************************************************************************)
(* C7, amended: with ByScoreDetails the request never ends in a success    *)
(* response and never enters merge_by_normalized_score; it ends in the     *)
(* not-implemented failure when the dispatch loop returned Ok, in the      *)
(* error of the failing query when a query failed, and in the unwrap       *)
(* failure of max_hits when the batch is empty.                            *)
(***************************************************************************)
C7_NotImplementedAfterDispatch ==
    merge_strategy = "ByScoreDetails" =>
        /\ response.kind # "ok"
        /\ ~InMerger
        /\ pc = "done" =>
             IF queries = <<>> THEN response = UnwrapNonePanic
             ELSE IF FailedCalls = {} THEN response = TodoPanic
             ELSE response.kind = "error"

\* two queries succeeded and the request ended in todo!()
C7_Witness ==
    /\ merge_strategy = "ByScoreDetails"
    /\ pc = "done"
    /\ Len(search_results) = 2
    /\ response = TodoPanic

(***************************************************************************)
(* C8: with ByNormalizedScore, when a hit of a per-query result has no     *)
(* ranking score the request fails and no merged list is returned.         *)
(***************************************************************************)
C8_MissingScoreFailsRequest ==
    (merge_strategy = "ByNormalizedScore" /\ pc = "done" /\ queries # <<>>
        /\ FailedCalls = {} /\ SomeHitUnscored)
    => response.kind = "panic"

(***************************************************************************)
(* C9, as stated, of the batches that hold a query: every failure of the   *)
(* request, UnimplementedStrategy included, is an error whose message      *)
(* names the position of a query.                                          *)
(***************************************************************************)
C9_EveryFailureHasPosition ==
    (pc = "done" /\ queries # <<>> /\ response.kind # "ok")
    => /\ response.kind = "error"
       /\ \E i \in 0..(Len(queries) - 1) : Tagged(response.error.message, i)

(***************************************************************************)
(* C9, amended: every error of the dispatch loop (authorization denied,    *)
(* index not found, blocking task failed, search failed) is paired with    *)
(* the position of the query that produced it, and the error the handler   *)
(* returns has the original message after the prefix naming that           *)
(* position; no error is returned without a position.  The                 *)
(* not-implemented failure and the unwrap failures are panics and name     *)
(* no position.                                                            *)
(***************************************************************************)
C9_DispatchErrorsCarryPosition ==
    /\ \A k \in FailedCalls :
         /\ pc # "analytics" => IsSome(dispatch_err)
         /\ IsSome(dispatch_err) =>
              /\ Unwrap(dispatch_err)[2] = calls[k].query_index
              /\ Unwrap(dispatch_err)[1].message = OriginalMessage(calls[k])
         /\ pc = "done" =>
              /\ response.kind = "error"
              /\ response.error.message =
                   <<"Inside '.queries[", ToString(calls[k].query_index), "]': ">>
                     \o OriginalMessage(calls[k])
    /\ response.kind = "error" => FailedCalls # {}
    /\ response.kind = "panic" => DOMAIN response = {"kind", "message"}

\* the search of the second query failed and the error names position 1
C9_Witness ==
    /\ pc = "done"
    /\ response.kind = "error"
    /\ \E k \in FailedCalls :
         calls[k].outcome = "search_error" /\ calls[k].query_index = 1

(***************************************************************************)
(* C10: once a query has failed, the handler never reaches the match on    *)
(* the merge strategy nor merge_by_normalized_score, and the response is   *)
(* the error alone: the results of the earlier positions are not in it.    *)
(***************************************************************************)
C10_NoMergeAfterFailure ==
    FailedCalls # {} =>
        /\ pc # "match_strategy"
        /\ ~InMerger
        /\ iterators = <<>> /\ hits = <<>> /\ round = 0
        /\ response.kind \in {"none", "error"}
        /\ pc = "done" => DOMAIN response = {"kind", "error"}

\* the first query gave hits, the index of the second is not found, and a merge
\* was asked for
C10_Witness ==
    /\ pc = "done"
    /\ merge_strategy = "ByNormalizedScore"
    /\ Len(search_results) = 1
    /\ search_results[1].result.hits # <<>>
    /\ \E k \in FailedCalls : calls[k].outcome = "not_found"
    /\ response.kind = "error"

(***************************************************************************)
(* C11: when the index of position i is not found, the error the request   *)
(* ends with has the status BAD_REQUEST (400), not NOT_FOUND (404), and    *)
(* names position i; the errors of the other kinds (authorization denied,  *)
(* blocking task failed, search failed) keep the status they came with.    *)
(***************************************************************************)
\* the status code a failed call's error comes with
OriginalCode(call) ==
    CASE call.outcome = "denied" -> "FORBIDDEN"
      [] call.outcome = "not_found" -> "NOT_FOUND"
      [] call.outcome = "join_error" -> "INTERNAL_SERVER_ERROR"
      [] call.outcome = "search_error" -> "INTERNAL_SERVER_ERROR"

C11_IndexNotFoundIsBadRequest ==
    \A k \in FailedCalls :
        pc = "done" =>
          /\ response.kind = "error"
          /\ Tagged(response.error.message, calls[k].query_index)
          /\ response.error.code =
               IF calls[k].op = "index" THEN "BAD_REQUEST" ELSE OriginalCode(calls[k])

\* the index of the first of two queries is not found
C11_Witness ==
    /\ pc = "done"
    /\ Len(queries) = 2
    /\ \E k \in FailedCalls :
         /\ calls[k].op = "index"
         /\ calls[k].query_index = 0
    /\ response.kind = "error"
    /\ response.error.code = "BAD_REQUEST"

(***************************************************************************)
(* C12: a success response holds the merged hit list exactly when the      *)
(* strategy is ByNormalizedScore, and then it is the list the merge        *)
(* returned; under None the field is absent.  In both cases the results    *)
(* list holds one result per query, in input order, as perform_search      *)
(* answered it: the merge leaves the per-query results as they were.       *)
(***************************************************************************)
\* the per-query results as the searches answered them, in input order
ResultsAsAnswered ==
    [k \in 1..Len(queries) |->
        [index_uid |-> queries[k].index_uid, result |-> [hits |-> AnswerAt(k - 1)]]]

C12_MergedListOnlyWhenAsked ==
    /\ (pc = "match_strategy" \/ InMerger) => search_results = ResultsAsAnswered
    /\ response.kind = "ok" =>
         /\ merge_strategy \in {"None", "ByNormalizedScore"}
         /\ ("aggregate_hits" \in DOMAIN response) <=> (merge_strategy = "ByNormalizedScore")
         /\ merge_strategy = "ByNormalizedScore" => response.aggregate_hits = hits
         /\ response.results = ResultsAsAnswered

\* two results with scored hits were merged and both lists are in the response
C12_Witness ==
    /\ pc = "done"
    /\ merge_strategy = "ByNormalizedScore"
    /\ response.kind = "ok"
    /\ Len(response.results) = 2
    /\ Len(response.aggregate_hits) = 3

(***************************************************************************)
(* C13: max_hits is the greatest, over the submitted queries, of           *)
(* hits_per_page when it is set and of limit otherwise; it is computed     *)
(* before the first call for any query, and it is the bound of the merge:  *)
(* the merge runs at most that many rounds and returns                     *)
(* min(max_hits, total hits) hits.                                         *)
(***************************************************************************)
\* the page size of the k-th submitted query if it is set, else its limit
PageSizeOrLimit(k) ==
    IF queries[k].hits_per_page # <<>> THEN queries[k].hits_per_page[1]
    ELSE queries[k].limit

\* the greatest of them
GreatestPageSizeOrLimit ==
    CHOOSE m \in {PageSizeOrLimit(k) : k \in DOMAIN queries} :
        \A k \in DOMAIN queries : PageSizeOrLimit(k) <= m

C13_MaxHitsDerivation ==
    /\ pc = "start" => (max_hits = None /\ calls = <<>>)
    /\ (calls # <<>> \/ IsSome(max_hits)) => max_hits = Some(GreatestPageSizeOrLimit)
    /\ InMerger => round <= GreatestPageSizeOrLimit
    /\ pc = "merged" =>
         Len(hits) = Min(GreatestPageSizeOrLimit, TotalHits(search_results))

\* page size 1 on the first query, limit 2 on the second: two of four hits merged
C13_Witness ==
    /\ pc = "merged"
    /\ Len(queries) = 2
    /\ queries[1].hits_per_page = Some(1)
    /\ queries[2].hits_per_page = None
    /\ TotalHits(search_results) = 4
    /\ Len(hits) = 2

(***************************************************************************)
(* C14: the queries are executed in input order, one at a time: at most    *)
(* one search is in flight, it is the search of the current position and   *)
(* the handler is awaiting it; the calls go through the positions in       *)
(* order, and every call for a position after the first follows the        *)
(* successful end of the search of the position before it.                 *)
(***************************************************************************)
C14_SequentialExecution ==
    /\ Cardinality(in_flight) <= 1
    /\ in_flight = (IF pc = "await" THEN {query_index} ELSE {})
    /\ \A j, k \in DOMAIN calls : j < k => calls[j].query_index <= calls[k].query_index
    /\ \A k \in DOMAIN calls :
         calls[k].query_index > 0 =>
           \E j \in 1..(k - 1) :
             /\ calls[j].op = "perform_search"
             /\ calls[j].outcome = "ok"
             /\ calls[j].query_index = calls[k].query_index - 1

\* the search of the second query is in flight, after the first gave its result
C14_Witness ==
    /\ pc = "await"
    /\ query_index = 1
    /\ in_flight = {1}
    /\ Len(search_results) = 1


(***************************************************************************)
(* C15: every round of the merge loop emits the head of a live cursor      *)
(* whose score is greater than or equal to the head score of every other   *)
(* live cursor; a cursor whose list is exhausted is removed and never      *)
(* selected again; the loop stops early when no cursor remains.  In        *)
(* particular A:[0.9, 0.5], B:[0.8, 0.7] with max_hits = 3 gives           *)
(* [A:0.9, B:0.8, B:0.7].                                                  *)
(***************************************************************************)
\* the number of rounds that selected the cursor of the s-th result
PicksOf(s) == Cardinality({n \in DOMAIN picks : picks[n] = s})

\* some live cursor iterates over the s-th result
IsLive(s) == \E k \in DOMAIN iterators : iterators[k].src = s

\* the round from iterators to iterators' emitted the head of iterators[k]
EmitsHeadOf(k) ==
    LET c == iterators[k]
    IN  /\ hits' = Append(hits, [index_uid |-> c.index_uid, hit |-> c.next])
        /\ picks' = Append(picks, c.src)
        /\ \A j \in DOMAIN iterators \ {k} :
              Unwrap(c.next.ranking_score) >= Unwrap(iterators[j].next.ranking_score)
        /\ IF c.it = <<>>
           THEN /\ Len(iterators') = Len(iterators) - 1
                /\ \A j \in DOMAIN iterators' : iterators'[j].src # c.src
           ELSE /\ Len(iterators') = Len(iterators)
                /\ \E j \in DOMAIN iterators' :
                      /\ iterators'[j].src = c.src
                      /\ iterators'[j].next = Head(c.it)

C15_Round ==
    /\ Len(hits') = Len(hits) + 1 => \E k \in DOMAIN iterators : EmitsHeadOf(k)
    /\ (pc = "merge_loop" /\ iterators = <<>>) => (pc' = "merged" /\ hits' = hits)

C15_State ==
    /\ \A s \in DOMAIN search_results :
          /\ PicksOf(s) <= Len(search_results[s].result.hits)
          /\ (pc \in {"merge_loop", "merged"}
                /\ PicksOf(s) = Len(search_results[s].result.hits)) => ~IsLive(s)
    /\ pc = "merged" => (round = Unwrap(max_hits) \/ iterators = <<>>)
    /\ (search_results = ExampleResults /\ max_hits = Some(3) /\ pc = "merged") =>
          hits = <<[index_uid |-> "a", hit |-> [doc |-> 1, ranking_score |-> Some(9)]],
                   [index_uid |-> "b", hit |-> [doc |-> 1, ranking_score |-> Some(8)]],
                   [index_uid |-> "b", hit |-> [doc |-> 2, ranking_score |-> Some(7)]]>>

C15_MaxHeadEachRound == [][C15_Round]_vars /\ []C15_State

\* the example is merged: three rounds, each with two live cursors to choose from
C15_Witness ==
    /\ search_results = ExampleResults
    /\ max_hits = Some(3)
    /\ pc = "merged"
    /\ picks = <<1, 2, 2>>
    /\ Len(iterators) = 1


(***************************************************************************)
(* C16: ties are resolved by one fixed total order on the cursors (their   *)
(* query positions): whenever the heads of several live cursors tie for    *)
(* the maximum score, the cursor emitted is the one the fixed order puts   *)
(* first, at every round and whatever was emitted before.                  *)
(***************************************************************************)
\* the number of hits of the s-th result emitted before round n
TakenBefore(s, n) == Cardinality({m \in 1..(n - 1) : picks[m] = s})

\* the s-th result has a live cursor at the start of round n
LiveAt(s, n) == TakenBefore(s, n) < Len(search_results[s].result.hits)

\* the head of the cursor of the s-th result at the start of round n
HeadAt(s, n) == search_results[s].result.hits[TakenBefore(s, n) + 1]

\* round n chose its cursor over that of the s-th result, whose head had the
\* same score
TiedAt(s, n) ==
    /\ s # picks[n]
    /\ LiveAt(s, n)
    /\ HeadAt(s, n).ranking_score = HeadAt(picks[n], n).ranking_score

\* the rankings of the cursors: one distinct rank for each result
Rankings ==
    {rank \in [DOMAIN search_results -> DOMAIN search_results] :
        \A s, t \in DOMAIN search_results : rank[s] = rank[t] => s = t}

C16_TiesByFixedOrder ==
    \E rank \in Rankings :
        \A n \in DOMAIN picks : \A s \in DOMAIN search_results :
            TiedAt(s, n) => rank[picks[n]] < rank[s]


(***************************************************************************)
(* C17: for a position whose index has search rules the query executed is  *)
(* the submitted query with the rules' filter added, for any other         *)
(* position it is the submitted query unchanged; the rewrite comes after   *)
(* the authorization check and before the index is resolved and the        *)
(* search executed; it never changes the position or the index uid.        *)
(***************************************************************************)
\* the query submitted at position i, without its index uid
Submitted(i) ==
    [limit |-> queries[i + 1].limit, hits_per_page |-> queries[i + 1].hits_per_page,
     filter |-> queries[i + 1].filter]

\* the query to execute at position i
Scoped(i) ==
    IF queries[i + 1].index_uid \in search_rules
    THEN [Submitted(i) EXCEPT
             !.filter = queries[i + 1].filter \o <<<<"tenant", queries[i + 1].index_uid>>>>]
    ELSE Submitted(i)

ExecOps == {"index", "spawn_blocking", "perform_search"}

C17_ScopedQueryExecuted ==
    /\ \A k \in DOMAIN calls :
          LET i == calls[k].query_index
          IN  /\ i + 1 \in DOMAIN queries
              /\ calls[k].index_uid = queries[i + 1].index_uid
              /\ calls[k].op = "is_index_authorized" => calls[k].query = Submitted(i)
              /\ calls[k].op \in ExecOps =>
                    /\ calls[k].query = Scoped(i)
                    /\ \E j \in 1..(k - 1) :
                          /\ calls[j].op = "get_index_search_rules"
                          /\ calls[j].query_index = i
                          /\ \E a \in 1..(j - 1) :
                                /\ calls[a].op = "is_index_authorized"
                                /\ calls[a].query_index = i
                                /\ calls[a].outcome = "ok"
    /\ pc \in {"index", "spawn", "await"} =>
          (query = Scoped(query_index) /\ IndexUidAt(query_index) = queries[query_index + 1].index_uid)

\* a search was executed for the second position with the rules of its index,
\* after one for the first position without rules
C17_Witness ==
    \E k, l \in DOMAIN calls :
        /\ calls[k].op = "perform_search" /\ calls[k].query_index = 0
        /\ calls[k].index_uid \notin search_rules
        /\ calls[k].query = Submitted(0)
        /\ calls[l].op = "perform_search" /\ calls[l].query_index = 1
        /\ calls[l].index_uid \in search_rules
        /\ calls[l].query # Submitted(1)


(***************************************************************************)
(* C18: the analytics outcome of a batch is recorded exactly once per      *)
(* request, only after the dispatch loop has ended (every query succeeded  *)
(* or the first failure occurred) and before the response or the merge is  *)
(* produced; it is marked as succeeded if and only if every query of the   *)
(* batch succeeded.                                                        *)
(***************************************************************************)
\* the dispatch loop has ended
DispatchEnded == dispatch_err # None \/ Len(search_results) = Len(queries)

\* every query of the batch has its result
AllSucceeded == dispatch_err = None /\ Len(search_results) = Len(queries)

AfterAnalytics == {"map_err", "match_strategy", "merge", "merge_loop", "merged", "done"}

AnalyticsOnce ==
    /\ Len(analytics) <= 1
    /\ analytics # <<>> =>
          /\ pc \in AfterAnalytics
          /\ DispatchEnded
          /\ analytics[1].succeeded <=> AllSucceeded
    /\ (pc \in AfterAnalytics \/ response # NoResponse \/ hits # <<>>) => Len(analytics) = 1

C18_AnalyticsOnceAfterDispatch == AnalyticsOnce

\* the same for the batches that hold a query
C18_AnalyticsOnceNonEmpty == queries # <<>> => AnalyticsOnce


(***************************************************************************)
(* C19: when every per-query hit list is ordered by non-increasing score,  *)
(* the multiset of the scores merge_by_normalized_score emits is the       *)
(* multiset of the min(max_hits, total hits) largest scores among all the  *)
(* hits of all the per-query results.                                      *)
(***************************************************************************)
\* the places of the hits of the per-query results
HitPlaces ==
    UNION {{<<s, k>> : k \in DOMAIN search_results[s].result.hits} :
              s \in DOMAIN search_results}

ScoreAt(p) == Unwrap(search_results[p[1]].result.hits[p[2]].ranking_score)

\* how many hits of the results have the score v, how many a greater one
InputCount(v) == Cardinality({p \in HitPlaces : ScoreAt(p) = v})
InputAbove(v) == Cardinality({p \in HitPlaces : ScoreAt(p) > v})

\* how many merged hits have the score v
MergedCount(v) ==
    Cardinality({n \in DOMAIN hits : Unwrap(hits[n].hit.ranking_score) = v})

\* how many hits of score v are among the k largest scores
TopCount(v, k) ==
    IF k <= InputAbove(v) THEN 0 ELSE Min(k - InputAbove(v), InputCount(v))

OrderedInput ==
    \A s \in DOMAIN search_results :
        /\ AllScored(search_results[s].result.hits)
        /\ NonIncreasing(search_results[s].result.hits)

C19_MergedIsTopK ==
    (pc = "merged" /\ OrderedInput) =>
        /\ \A n \in DOMAIN hits : IsSome(hits[n].hit.ranking_score)
        /\ \A p \in HitPlaces :
              MergedCount(ScoreAt(p)) =
                 TopCount(ScoreAt(p), Min(Unwrap(max_hits), TotalHits(search_results)))
        /\ \A n \in DOMAIN hits :
              \E p \in HitPlaces : ScoreAt(p) = Unwrap(hits[n].hit.ranking_score)

\* a merge that had to choose: hits of both results taken, a hit left out
C19_Witness ==
    /\ pc = "merged"
    /\ OrderedInput
    /\ Len(hits) >= 2
    /\ Len(hits) < TotalHits(search_results)
    /\ \E m, n \in DOMAIN picks : picks[m] # picks[n]
    /\ \E p \in HitPlaces : MergedCount(ScoreAt(p)) < InputCount(ScoreAt(p))


(***************************************************************************)
(* C20: a batch with zero queries is handled without crashing: no          *)
(* authorization, resolution or execution call is made and the request     *)
(* completes with a success response holding an empty results list, and    *)
(* an empty merged list under ByNormalizedScore.                           *)
(***************************************************************************)
C20_EmptyBatchSucceeds ==
    queries = <<>> =>
        /\ calls = <<>>
        /\ response.kind # "panic"
        /\ pc = "done" =>
              /\ response.kind = "ok"
              /\ response.results = <<>>
              /\ merge_strategy = "ByNormalizedScore" => response.aggregate_hits = <<>>

====
